---- MODULE Spec2Model ----
(***************************************************************************)
(* The simulation screen of MetroSim                                       *)
(* (src/components/simulations/simulation-controls.tsx): the React state   *)
(* `simulation`, the React state `intervalId`, the browser's set of live   *)
(* intervals, and the effect that creates and clears them.                 *)
(*                                                                         *)
(* One action per user control or timer callback.  An action is the whole  *)
(* event: the functional state update, the re-render, and the effect of    *)
(* lines 54-89 when one of its dependencies (status, speed) changed.       *)
(*                                                                         *)
(* Units: the three percentage results are held in hundredths of a         *)
(* percent (85% = 8500), so that 80 + 15 * p / 100 is an integer.  For     *)
(* integer progress 0..100 the doubles the code computes are the doubles   *)
(* nearest to these decimals.  totalPassengers is Math.floor of a double   *)
(* product and is modelled with the rounding of that product.              *)
(***************************************************************************)
EXTENDS Integers, FiniteSets, Sequences, TLC

VARIABLES
    simulation,   \* useState<SimulationState>, lines 32-50
    intervalId,   \* useState<NodeJS.Timeout | null>, line 52 (0 is null)
    cleanupId,    \* the intervalId captured by the last effect's cleanup, lines 86-88
    active,       \* the intervals created by setInterval and not yet cleared
    lastOp,       \* the last control used or callback run: <<name, value>>, the
                  \* value of a button being 1 when it was disabled, else 0
    run,          \* [p0, s, n]: the ticks counted by SpecTicks; constant under Spec
    mounted,      \* SimulationControls is mounted; changed under SpecUnmount only
    predictions,  \* MLPredictions: useState<PredictionData[]>, part_000 line 22
    selectedType, \* MLPredictions: useState<string>, part_000 line 23
    loading,      \* MLPredictions: useState(true), part_000 line 24
    lastUpdate,   \* MLPredictions: useState<Date>, part_000 line 25, as the number
                  \* of loads that have ended
    timeouts      \* MLPredictions: the setTimeout callbacks pending, part_000 line 34

\* the state of the ML predictions screen
mlVars == <<predictions, selectedType, loading, lastUpdate, timeouts>>

\* what the controls and the timer of the simulation screen leave alone
others == <<mounted, mlVars>>

\* what the ML predictions screen leaves alone
simVars == <<simulation, intervalId, cleanupId, active, run, mounted>>

vars == <<simulation, intervalId, cleanupId, active, lastOp, run, mounted, mlVars>>

----------------------------------------------------------------------------
(* Bounds of the model *)

\* how far outside a slider's range the raw pointer positions tried go
Overshoot == 1

\* the progress at which the late run of SpecConfig starts
LateProgress == 98

\* the number of loads of the ML predictions screen that are followed
MaxLoads == 6

----------------------------------------------------------------------------
(* Program constants *)

MaxProgress == 100
TrainCountMin == 5
TrainCountMax == 20
PassengerLoadMin == 20
PassengerLoadMax == 100
PassengerLoadStep == 5
SpeedMin == 1
SpeedMax == 5

Statuses == {"idle", "running", "paused", "completed"}

Min(a, b) == IF a <= b THEN a ELSE b
Max(a, b) == IF a >= b THEN a ELSE b

ZeroResults ==
    [onTimePerformance |-> 0, passengerSatisfaction |-> 0,
     energyEfficiency |-> 0, totalPassengers |-> 0]

InitialSimulation ==
    [status |-> "idle",
     progress |-> 0,
     timeElapsed |-> 0,
     scenario |-> "rush_hour",
     parameters |-> [trainCount |-> 12, passengerLoad |-> 75,
                     weatherCondition |-> "clear", timeOfDay |-> "morning",
                     speed |-> 1],
     results |-> ZeroResults]

----------------------------------------------------------------------------
(* The tick callback, lines 56-77 *)

\* The progress values p at which the double (p / 100) * 45000 falls just
\* below the integer 450 * p, so that Math.floor returns 450 * p - 1.
\* For every other p in 0..100 the product is exactly 450 * p.
FloorLoss == {35, 57, 69, 70}

TotalPassengers_FloorFirst(newProgress) == (newProgress \div 100) * 45000

TotalPassengers(newProgress) ==
    IF newProgress \in FloorLoss THEN 450 * newProgress - 1 ELSE 450 * newProgress

TickResults_NoCap(newProgress) ==
    [onTimePerformance |-> 8500 + newProgress * 10,
     passengerSatisfaction |-> 8000 + newProgress * 15,
     energyEfficiency |-> 7000 + newProgress * 20,
     totalPassengers |-> TotalPassengers(newProgress)]

TickResults(newProgress) ==
    [onTimePerformance |-> Min(8500 + newProgress * 10, 9500),
     passengerSatisfaction |-> Min(8000 + newProgress * 15, 9200),
     energyEfficiency |-> Min(7000 + newProgress * 20, 8800),
     totalPassengers |-> TotalPassengers(newProgress)]

NewProgress_NoClamp(prev) == prev.progress + prev.parameters.speed

NewProgress_Wrap(prev) == (prev.progress + prev.parameters.speed) % MaxProgress

NewProgress(prev) == Min(prev.progress + prev.parameters.speed, MaxProgress)

TickUpdater_StaleResults(prev) ==
    LET newProgress == NewProgress(prev) IN
    [prev EXCEPT !.progress = newProgress,
                 !.timeElapsed = prev.timeElapsed + 1,
                 !.results = TickResults(prev.progress),
                 !.status = IF newProgress >= MaxProgress THEN "completed" ELSE "running"]

TickUpdater_StrictComplete(prev) ==
    LET newProgress == NewProgress(prev) IN
    [prev EXCEPT !.progress = newProgress,
                 !.timeElapsed = prev.timeElapsed + 1,
                 !.results = TickResults(newProgress),
                 !.status = IF newProgress > MaxProgress THEN "completed" ELSE "running"]

TickUpdater(prev) ==
    LET newProgress == NewProgress(prev) IN
    [prev EXCEPT !.progress = newProgress,
                 !.timeElapsed = prev.timeElapsed + 1,
                 !.results = TickResults(newProgress),
                 !.status = IF newProgress >= MaxProgress THEN "completed" ELSE "running"]

----------------------------------------------------------------------------
(* The state updaters of the controls, lines 91-123 and 227 *)

StartUpdater_Restart(prev) ==
    [prev EXCEPT !.status = "running", !.progress = 0, !.timeElapsed = 0]

StartUpdater(prev) == [prev EXCEPT !.status = "running"]

PauseUpdater(prev) == [prev EXCEPT !.status = "paused"]

StopUpdater_Defaults(prev) == InitialSimulation

StopUpdater_KeepsTime(prev) ==
    [prev EXCEPT !.status = "idle", !.progress = 0, !.results = ZeroResults]

StopUpdater_KeepsResults(prev) ==
    [prev EXCEPT !.status = "idle", !.progress = 0, !.timeElapsed = 0]

StopUpdater(prev) ==
    [prev EXCEPT !.status = "idle", !.progress = 0, !.timeElapsed = 0,
                 !.results = ZeroResults]

UpdateParameter(prev, key, value) == [prev EXCEPT !.parameters[key] = value]

ScenarioUpdater(prev, value) == [prev EXCEPT !.scenario = value]

----------------------------------------------------------------------------
(* The effect, lines 54-89 *)

\* clearInterval(id); clearing null or an id already cleared does nothing
ClearInterval(id, live) == live \ {id}

\* setInterval returns an id no live interval has and that the component
\* does not hold: the least one (an id nothing refers to any more is reused)
FreshId(held, live) ==
    LET used == live \cup held
        pool == 1..(Cardinality(used) + 1)
    IN  CHOOSE id \in pool :
            /\ id \notin used
            /\ \A other \in pool : other \notin used => id <= other

\* the cleanup returned by the previous run of the effect, lines 86-88: it
\* clears the intervalId of the render that created it
Cleanup(captured, live) ==
    IF captured # 0 THEN ClearInterval(captured, live) ELSE live

EffectBody_NoClear(status, rendered, live) ==
    IF status = "running"
    THEN LET id == FreshId({rendered}, live) IN
         [live |-> live \cup {id}, intervalId |-> id]
    ELSE [live |-> live, intervalId |-> rendered]

EffectBody_SkipIfHeld(status, rendered, live) ==
    IF status = "running"
    THEN IF rendered # 0
         THEN [live |-> live, intervalId |-> rendered]
         ELSE LET id == FreshId({rendered}, live) IN
              [live |-> live \cup {id}, intervalId |-> id]
    ELSE IF rendered # 0
         THEN [live |-> ClearInterval(rendered, live), intervalId |-> 0]
         ELSE [live |-> live, intervalId |-> rendered]

EffectBody_KeepOnComplete(status, rendered, live) ==
    IF status = "running"
    THEN LET id == FreshId({rendered}, live) IN
         [live |-> live \cup {id}, intervalId |-> id]
    ELSE IF rendered # 0 /\ status # "completed"
         THEN [live |-> ClearInterval(rendered, live), intervalId |-> 0]
         ELSE [live |-> live, intervalId |-> rendered]

\* the body of the effect, lines 55-84, for a render with this status and
\* this intervalId; gives the live intervals and the new intervalId
EffectBody(status, rendered, live) ==
    IF status = "running"
    THEN LET id == FreshId({rendered}, live) IN
         [live |-> live \cup {id}, intervalId |-> id]
    ELSE IF rendered # 0
         THEN [live |-> ClearInterval(rendered, live), intervalId |-> 0]
         ELSE [live |-> live, intervalId |-> rendered]

\* the dependency array, line 89
Deps(sim) == <<sim.status, sim.parameters.speed>>

\* Commit the new state: when a dependency changed, the previous cleanup
\* runs and then the effect, whose own cleanup captures the intervalId of
\* this render.  The re-render that setIntervalId causes changes no
\* dependency and runs no effect.
Commit(next) ==
    /\ simulation' = next
    /\ IF Deps(next) # Deps(simulation)
       THEN LET e == EffectBody(next.status, intervalId, Cleanup(cleanupId, active)) IN
            /\ active' = e.live
            /\ intervalId' = e.intervalId
            /\ cleanupId' = intervalId
       ELSE UNCHANGED <<active, intervalId, cleanupId>>

----------------------------------------------------------------------------
(* The controls, lines 161-189 and 225-304 *)

StartDisabled_RunningOnly == simulation.status = "running"

StartDisabled == simulation.status = "running" \/ simulation.status = "completed"

PauseDisabled_Never == FALSE

PauseDisabled_WhenIdle == simulation.status = "idle"

PauseDisabled == simulation.status # "running"

StopDisabled == simulation.status = "idle"

ConfigDisabled_Never == FALSE

ConfigDisabled == simulation.status = "running"

CeilDiv(a, b) == (a + b - 1) \div b

ETA_Floor(sim) == (100 - sim.progress) \div sim.parameters.speed

\* the ETA shown while running, lines 204-209: Math.ceil((100 - progress) / speed)
ETA(sim) == CeilDiv(100 - sim.progress, sim.parameters.speed)

\* The Slider of components/ui/slider reports a value inside [min, max]
SliderValue(raw, min, max) == Max(min, Min(raw, max))

ScenarioItems == {"rush_hour", "normal_operations", "maintenance_mode", "emergency_scenario"}

WeatherItems == {"clear", "rain", "snow", "fog"}

\* the raw values tried on each control
RawSpeeds == (SpeedMin - Overshoot)..(SpeedMax + Overshoot)

RawTrainCounts ==
    {TrainCountMin - Overshoot, TrainCountMin, TrainCountMax, TrainCountMax + Overshoot}

RawPassengerLoads ==
    {PassengerLoadMin - Overshoot * PassengerLoadStep,
     PassengerLoadMax + Overshoot * PassengerLoadStep}

\* Start button, lines 161-168, and startSimulation, lines 91-93
Start ==
    /\ lastOp' = <<"start", IF StartDisabled THEN 1 ELSE 0>>
    /\ IF StartDisabled
       THEN UNCHANGED <<simulation, intervalId, cleanupId, active>>
       ELSE Commit(StartUpdater(simulation))

\* Pause button, lines 169-177, and pauseSimulation, lines 95-97
Pause ==
    /\ lastOp' = <<"pause", IF PauseDisabled THEN 1 ELSE 0>>
    /\ IF PauseDisabled
       THEN UNCHANGED <<simulation, intervalId, cleanupId, active>>
       ELSE Commit(PauseUpdater(simulation))

\* Stop button, lines 178-186, and stopSimulation, lines 99-112
Stop ==
    /\ lastOp' = <<"stop", IF StopDisabled THEN 1 ELSE 0>>
    /\ IF StopDisabled
       THEN UNCHANGED <<simulation, intervalId, cleanupId, active>>
       ELSE Commit(StopUpdater(simulation))

\* Reset button, lines 187-189, and resetSimulation, lines 114-116
Reset ==
    /\ lastOp' = <<"reset", 0>>
    /\ Commit(StopUpdater(simulation))

\* one firing of the live interval id, lines 56-77
Tick(id) ==
    /\ id \in active
    /\ lastOp' = <<"tick", 0>>
    /\ Commit(TickUpdater(simulation))

\* Scenario Type select, lines 225-239
SetScenario(value) ==
    /\ lastOp' = <<"setScenario", value>>
    /\ IF ConfigDisabled
       THEN UNCHANGED <<simulation, intervalId, cleanupId, active>>
       ELSE Commit(ScenarioUpdater(simulation, value))

\* Weather Condition select, lines 244-258
SetWeather(value) ==
    /\ lastOp' = <<"setWeather", value>>
    /\ IF ConfigDisabled
       THEN UNCHANGED <<simulation, intervalId, cleanupId, active>>
       ELSE Commit(UpdateParameter(simulation, "weatherCondition", value))

\* Number of Trains slider, lines 268-275
SetTrainCount(raw) ==
    /\ lastOp' = <<"setTrainCount", raw>>
    /\ IF ConfigDisabled
       THEN UNCHANGED <<simulation, intervalId, cleanupId, active>>
       ELSE Commit(UpdateParameter(simulation, "trainCount",
                       SliderValue(raw, TrainCountMin, TrainCountMax)))

\* Passenger Load slider, lines 283-290
SetPassengerLoad(raw) ==
    /\ lastOp' = <<"setPassengerLoad", raw>>
    /\ IF ConfigDisabled
       THEN UNCHANGED <<simulation, intervalId, cleanupId, active>>
       ELSE Commit(UpdateParameter(simulation, "passengerLoad",
                       SliderValue(raw, PassengerLoadMin, PassengerLoadMax)))

SetSpeed_WrongMax(raw) ==
    /\ lastOp' = <<"setSpeed", raw>>
    /\ Commit(UpdateParameter(simulation, "speed",
                  SliderValue(raw, SpeedMin, TrainCountMax)))

\* Simulation Speed slider, lines 298-304: never disabled
SetSpeed(raw) ==
    /\ lastOp' = <<"setSpeed", raw>>
    /\ Commit(UpdateParameter(simulation, "speed", SliderValue(raw, SpeedMin, SpeedMax)))

\* The component is unmounted: React runs the cleanup of the last run of
\* the effect, lines 86-88, which clears the intervalId of its own render
Unmount ==
    /\ mounted
    /\ mounted' = FALSE
    /\ active' = Cleanup(cleanupId, active)
    /\ lastOp' = <<"unmount", 0>>
    /\ UNCHANGED <<simulation, intervalId, cleanupId>>

\* a firing of the live interval id after the unmount, lines 56-77: React
\* drops the state update of a component that is no longer mounted
StrayTick(id) ==
    /\ ~mounted
    /\ id \in active
    /\ lastOp' = <<"strayTick", 0>>
    /\ UNCHANGED <<simulation, intervalId, cleanupId, active, mounted>>

----------------------------------------------------------------------------
(* The ML predictions screen, src/unnamed/part_000 *)

\* the four predictions the simulated API call returns, part_000 lines 35-80
LoadedPredictions ==
    {[id |-> "PRED-001", type |-> "delay"],
     [id |-> "PRED-002", type |-> "maintenance"],
     [id |-> "PRED-003", type |-> "passenger_flow"],
     [id |-> "PRED-004", type |-> "energy"]}

\* after the first render and the mount effect, part_000 lines 22-29: the
\* effect has called loadPredictions, whose timeout is pending
InitML ==
    /\ predictions = {}
    /\ selectedType = "all"
    /\ loading = TRUE
    /\ lastUpdate = 0
    /\ timeouts = 1

\* the items of the prediction type select, part_000 lines 197-201
TypeItems == {"all", "delay", "maintenance", "passenger_flow", "energy"}

RefreshDisabled_Never == FALSE

\* the disabled guard of the Refresh button, part_000 line 133
RefreshDisabled == loading

\* Refresh button, part_000 lines 133-136, and loadPredictions up to its
\* setTimeout, lines 31-34
Refresh ==
    /\ RefreshDisabled \/ lastUpdate + timeouts < MaxLoads
    /\ lastOp' = <<"refresh", IF RefreshDisabled THEN 1 ELSE 0>>
    /\ IF RefreshDisabled
       THEN UNCHANGED mlVars
       ELSE /\ loading' = TRUE
            /\ timeouts' = timeouts + 1
            /\ UNCHANGED <<predictions, selectedType, lastUpdate>>

\* the callback of a pending timeout, part_000 lines 34-83
LoadEnds ==
    /\ timeouts > 0
    /\ timeouts' = timeouts - 1
    /\ predictions' = LoadedPredictions
    /\ lastUpdate' = lastUpdate + 1
    /\ loading' = FALSE
    /\ lastOp' = <<"loadEnds", 0>>
    /\ UNCHANGED selectedType

\* the prediction type select, part_000 line 192
SetSelectedType(value) ==
    /\ selectedType' = value
    /\ lastOp' = <<"setSelectedType", value>>
    /\ UNCHANGED <<predictions, loading, lastUpdate, timeouts>>

----------------------------------------------------------------------------
(* The component from its first render on *)

NoRun == [p0 |-> 0, s |-> 0, n |-> 0]

\* after the first render: the effect ran with status idle and intervalId
\* null, and did nothing
Init ==
    /\ simulation = InitialSimulation
    /\ intervalId = 0
    /\ cleanupId = 0
    /\ active = {}
    /\ lastOp = <<"mount", 0>>
    /\ run = NoRun
    /\ mounted = TRUE
    /\ InitML

\* the lifecycle: the four buttons, the timer and the speed slider
Next ==
    \/ Start /\ UNCHANGED <<run, others>>
    \/ Pause /\ UNCHANGED <<run, others>>
    \/ Stop /\ UNCHANGED <<run, others>>
    \/ Reset /\ UNCHANGED <<run, others>>
    \/ (\E id \in active : Tick(id)) /\ UNCHANGED <<run, others>>
    \/ (\E raw \in RawSpeeds : SetSpeed(raw)) /\ UNCHANGED <<run, others>>

Spec == Init /\ [][Next]_vars

----------------------------------------------------------------------------
(* The configuration controls in each status.  The run starts idle, or     *)
(* late in a first run at the initial speed.                               *)

\* the state after: the configuration chosen while idle, Start, and
\* LateProgress ticks at the initial speed
LateRunning(scenario, weather, trainCount, passengerLoad) ==
    [InitialSimulation EXCEPT !.status = "running",
                              !.progress = LateProgress,
                              !.timeElapsed = LateProgress,
                              !.scenario = scenario,
                              !.parameters.weatherCondition = weather,
                              !.parameters.trainCount = trainCount,
                              !.parameters.passengerLoad = passengerLoad,
                              !.results = TickResults(LateProgress)]

InitConfig ==
    /\ run = NoRun
    /\ mounted = TRUE
    /\ InitML
    /\ \/ /\ simulation = InitialSimulation
          /\ intervalId = 0
          /\ cleanupId = 0
          /\ active = {}
          /\ lastOp = <<"mount", 0>>
       \/ /\ \E scenario \in ScenarioItems, weather \in WeatherItems,
                trainCount \in {InitialSimulation.parameters.trainCount, TrainCountMin},
                passengerLoad \in {InitialSimulation.parameters.passengerLoad, PassengerLoadMax} :
                    simulation = LateRunning(scenario, weather, trainCount, passengerLoad)
          /\ intervalId = 1
          /\ cleanupId = 0
          /\ active = {1}
          /\ lastOp = <<"tick", 0>>

NextConfig ==
    \/ Pause /\ UNCHANGED <<run, others>>
    \/ (\E id \in active : Tick(id)) /\ UNCHANGED <<run, others>>
    \/ (\E value \in ScenarioItems : SetScenario(value)) /\ UNCHANGED <<run, others>>
    \/ (\E value \in WeatherItems : SetWeather(value)) /\ UNCHANGED <<run, others>>
    \/ (\E raw \in RawTrainCounts : SetTrainCount(raw)) /\ UNCHANGED <<run, others>>
    \/ (\E raw \in RawPassengerLoads : SetPassengerLoad(raw)) /\ UNCHANGED <<run, others>>
    \/ (\E raw \in RawSpeeds : SetSpeed(raw)) /\ UNCHANGED <<run, others>>

SpecConfig == InitConfig /\ [][NextConfig]_vars

----------------------------------------------------------------------------
(* Ticks at a constant speed.  The run is one resumed at progress p0 with  *)
(* speed s: Start, p0 ticks at speed 1, Pause, the speed slider set to s,  *)
(* Start.  run.n counts the ticks applied since.                           *)

ResumedAt(p0, s) ==
    [InitialSimulation EXCEPT !.status = "running",
                              !.progress = p0,
                              !.timeElapsed = p0,
                              !.parameters.speed = s,
                              !.results = IF p0 = 0 THEN ZeroResults ELSE TickResults(p0)]

InitTicks ==
    /\ mounted = TRUE
    /\ InitML
    /\ \E p0 \in 0..(MaxProgress - 1), s \in SpeedMin..SpeedMax :
            /\ simulation = ResumedAt(p0, s)
            /\ intervalId = 1
            /\ cleanupId = 0
            /\ active = {1}
            /\ lastOp = <<"start", 0>>
            /\ run = [p0 |-> p0, s |-> s, n |-> 0]

CountedTick ==
    /\ \E id \in active : Tick(id)
    /\ run' = [run EXCEPT !.n = @ + 1]
    /\ UNCHANGED others

NextTicks ==
    \/ CountedTick
    \/ Pause /\ UNCHANGED <<run, others>>
    \/ Start /\ UNCHANGED <<run, others>>

SpecTicks == InitTicks /\ [][NextTicks]_vars

----------------------------------------------------------------------------
(* A resumed run left alone: the user uses no control, and a live interval *)
(* keeps firing (setInterval repeats until it is cleared).                 *)

NextLive == CountedTick

SpecLive == InitTicks /\ [][NextLive]_vars /\ WF_vars(CountedTick)

----------------------------------------------------------------------------
(* The buttons and the timer on a configured run.  The run is one          *)
(* configured while idle, started, ticked LateProgress times at the        *)
(* initial speed, paused, set to the speed s, and resumed.                 *)

ConfiguredRun(scenario, weather, trainCount, passengerLoad, s) ==
    [LateRunning(scenario, weather, trainCount, passengerLoad)
        EXCEPT !.parameters.speed = s]

InitFrame ==
    /\ run = NoRun
    /\ mounted = TRUE
    /\ InitML
    /\ \E scenario \in ScenarioItems, weather \in WeatherItems,
          trainCount \in {InitialSimulation.parameters.trainCount, TrainCountMin},
          passengerLoad \in {InitialSimulation.parameters.passengerLoad, PassengerLoadMax},
          s \in {SpeedMin, SpeedMax} :
              simulation = ConfiguredRun(scenario, weather, trainCount, passengerLoad, s)
    /\ intervalId = 1
    /\ cleanupId = 0
    /\ active = {1}
    /\ lastOp = <<"start", 0>>

NextFrame ==
    \/ Start /\ UNCHANGED <<run, others>>
    \/ Pause /\ UNCHANGED <<run, others>>
    \/ Stop /\ UNCHANGED <<run, others>>
    \/ Reset /\ UNCHANGED <<run, others>>
    \/ (\E id \in active : Tick(id)) /\ UNCHANGED <<run, others>>

SpecFrame == InitFrame /\ [][NextFrame]_vars

----------------------------------------------------------------------------
(* The lifecycle up to the unmount of the component, and the timers that   *)
(* outlive it.                                                             *)

NextUnmount ==
    \/ mounted /\ Start /\ UNCHANGED <<run, others>>
    \/ mounted /\ Pause /\ UNCHANGED <<run, others>>
    \/ mounted /\ Stop /\ UNCHANGED <<run, others>>
    \/ mounted /\ Reset /\ UNCHANGED <<run, others>>
    \/ mounted /\ (\E id \in active : Tick(id)) /\ UNCHANGED <<run, others>>
    \/ mounted /\ (\E raw \in RawSpeeds : SetSpeed(raw)) /\ UNCHANGED <<run, others>>
    \/ Unmount /\ UNCHANGED <<run, mlVars>>
    \/ (\E id \in active : StrayTick(id)) /\ UNCHANGED <<run, mlVars>>

SpecUnmount == Init /\ [][NextUnmount]_vars

----------------------------------------------------------------------------
(* The ML predictions screen from its first render on.  A pending timeout  *)
(* fires (setTimeout runs its callback once the delay has passed).         *)

NextML ==
    \/ Refresh /\ UNCHANGED simVars
    \/ LoadEnds /\ UNCHANGED simVars
    \/ (\E value \in TypeItems : SetSelectedType(value)) /\ UNCHANGED simVars

SpecML == Init /\ [][NextML]_vars /\ WF_vars(LoadEnds /\ UNCHANGED simVars)

----------------------------------------------------------------------------
(* Properties *)

\* C1: after n ticks at a constant speed s from progress p0, with no stop
\* or reset in between, progress is min(p0 + n * s, 100).
C1_ProgressAfterTicks ==
    simulation.progress = Min(run.p0 + run.n * run.s, 100)

\* a run in which the clamp at 100 decided the progress
C1_Witness ==
    /\ lastOp = <<"tick", 0>>
    /\ run.n >= 2
    /\ run.p0 + run.n * run.s > 100
    /\ simulation.progress = 100

\* C2: at most one interval created by the component is live at any time.
C2_OneTimer == Cardinality(active) <= 1

\* C3: no timer callback runs while the status is idle or paused: every
\* tick is applied to a running simulation, and no interval is live once
\* pause, stop or reset has been handled.
C3_NoStaleTick ==
    [][/\ lastOp'[1] = "tick" => simulation.status = "running"
       /\ simulation'.status \in {"idle", "paused"} => active' = {}]_vars

\* paused in mid-run, after the speed was changed while running
C3_Witness ==
    /\ lastOp = <<"pause", 0>>
    /\ simulation.status = "paused"
    /\ simulation.progress > 0
    /\ cleanupId # 0
    /\ active = {}

\* C4: stop and reset each give status idle, progress 0, timeElapsed 0 and
\* all four results 0, from every state, and leave the rest as it was; so
\* reset gives the same state as stop.
C4_StopResetZero ==
    [][lastOp'[1] \in {"stop", "reset"} =>
          simulation' = [simulation EXCEPT
                            !.status = "idle",
                            !.progress = 0,
                            !.timeElapsed = 0,
                            !.results = [onTimePerformance |-> 0,
                                         passengerSatisfaction |-> 0,
                                         energyEfficiency |-> 0,
                                         totalPassengers |-> 0]]]_vars

\* reset handled while an interval was held (the run was under way)
C4_Witness ==
    /\ lastOp = <<"reset", 0>>
    /\ cleanupId # 0
    /\ simulation.status = "idle"
    /\ simulation.progress = 0

\* C5: start while running or completed changes nothing of the simulation
\* state.
C5_StartIdempotent ==
    [][(lastOp'[1] = "start" /\ simulation.status \in {"running", "completed"})
          => simulation' = simulation]_vars

\* start used on a completed run, which stayed completed
C5_Witness ==
    /\ lastOp = <<"start", 1>>
    /\ simulation.status = "completed"
    /\ simulation.progress = 100

\* C6: every change of status is one of the listed transitions.
C6_ListedTransition ==
    \/ /\ simulation.status = "idle"
       /\ simulation'.status = "running"
       /\ lastOp'[1] = "start"
    \/ /\ simulation.status = "running"
       /\ simulation'.status = "paused"
       /\ lastOp'[1] = "pause"
    \/ /\ simulation.status = "paused"
       /\ simulation'.status = "running"
       /\ lastOp'[1] = "start"
    \/ /\ simulation.status = "running"
       /\ simulation'.status = "completed"
       /\ lastOp'[1] = "tick"
       /\ simulation'.progress = 100
    \/ /\ simulation.status \in {"running", "paused", "completed"}
       /\ simulation'.status = "idle"
       /\ lastOp'[1] \in {"stop", "reset"}

C6_Transitions ==
    [][simulation'.status # simulation.status => C6_ListedTransition]_vars

\* pause used on a completed run, which stayed completed
C6_Witness ==
    /\ lastOp = <<"pause", 1>>
    /\ simulation.status = "completed"

\* C7 as stated: in every state the results are within [85,95], [80,92],
\* [70,88] and [0,45000].
C7_ResultsInBounds ==
    /\ simulation.results.onTimePerformance \in 8500..9500
    /\ simulation.results.passengerSatisfaction \in 8000..9200
    /\ simulation.results.energyEfficiency \in 7000..8800
    /\ simulation.results.totalPassengers \in 0..45000

C7_ResultsLeq(r1, r2) ==
    /\ r1.onTimePerformance <= r2.onTimePerformance
    /\ r1.passengerSatisfaction <= r2.passengerSatisfaction
    /\ r1.energyEfficiency <= r2.energyEfficiency
    /\ r1.totalPassengers <= r2.totalPassengers

\* C7 as amended: the results are within their bounds once a tick has been
\* applied (progress > 0) and are all 0 while progress is 0; and over a step
\* that does not lower progress no result decreases.
C7_BoundsAfterFirstTick ==
    [][/\ simulation'.progress > 0 => C7_ResultsInBounds'
       /\ simulation'.progress = 0 =>
              simulation'.results = [onTimePerformance |-> 0,
                                     passengerSatisfaction |-> 0,
                                     energyEfficiency |-> 0,
                                     totalPassengers |-> 0]
       /\ simulation'.progress >= simulation.progress =>
              C7_ResultsLeq(simulation.results, simulation'.results)]_vars

\* a tick past the progress at which satisfaction reaches its cap
C7_Witness ==
    /\ lastOp = <<"tick", 0>>
    /\ simulation.progress \in 81..99
    /\ simulation.results.passengerSatisfaction = 9200
    /\ simulation.results.energyEfficiency < 8800

\* C8: while running, the scenario, weather, train count and passenger
\* load controls change nothing; the speed slider is applied in every
\* status.
C8_ConfigWhileRunning ==
    [][/\ ( /\ simulation.status = "running"
            /\ lastOp'[1] \in {"setScenario", "setWeather",
                               "setTrainCount", "setPassengerLoad"} )
          => simulation' = simulation
       /\ (lastOp'[1] = "setSpeed" /\ lastOp'[2] \in 1..5)
          => simulation' = [simulation EXCEPT !.parameters.speed = lastOp'[2]]]_vars

\* the train count slider moved to 20 while running, the count still 5
C8_Witness ==
    /\ simulation.status = "running"
    /\ lastOp = <<"setTrainCount", 20>>
    /\ simulation.parameters.trainCount = 5

C10_PauseResume ==
    [][/\ (lastOp'[1] = "pause" /\ simulation.status = "running")
          => simulation' = [simulation EXCEPT !.status = "paused"]
       /\ (lastOp'[1] = "start" /\ simulation.status = "paused")
          => simulation' = [simulation EXCEPT !.status = "running"]
       /\ lastOp'[1] = "tick"
          => /\ simulation'.progress =
                    Min(simulation.progress + simulation.parameters.speed, 100)
             /\ simulation'.timeElapsed = simulation.timeElapsed + 1]_vars

\* a resumed run: start handled with progress and time already counted
C10_Witness ==
    /\ lastOp = <<"start", 0>>
    /\ simulation.status = "running"
    /\ simulation.progress > 0
    /\ simulation.timeElapsed > 0
    /\ simulation.results.totalPassengers > 0

\* C11: from the initial idle state with the speed set to 2, start and
\* exactly 10 ticks give progress 20, status running, totalPassengers 9000
\* and timeElapsed 10.
C11_TenTicksAtSpeedTwo ==
    (run.p0 = 0 /\ run.s = 2 /\ run.n = 10 /\ lastOp[1] = "tick") =>
        /\ simulation.progress = 20
        /\ simulation.status = "running"
        /\ simulation.results.totalPassengers = 9000
        /\ simulation.timeElapsed = 10

\* the tenth tick of the run started at progress 0 with speed 2
C11_Witness ==
    /\ run = [p0 |-> 0, s |-> 2, n |-> 10]
    /\ lastOp = <<"tick", 0>>
    /\ simulation.timeElapsed = 10

\* C12: from running with progress 98 and speed 5, one tick gives progress
\* 100 (not 103), status completed, totalPassengers 45000 and
\* onTimePerformance 95.
C12_TickFrom98AtSpeedFive ==
    (run.p0 = 98 /\ run.s = 5 /\ run.n = 1) =>
        /\ simulation.progress = 100
        /\ simulation.status = "completed"
        /\ simulation.results.totalPassengers = 45000
        /\ simulation.results.onTimePerformance = 9500

\* the state after that one tick
C12_Witness ==
    /\ run = [p0 |-> 98, s |-> 5, n |-> 1]
    /\ simulation.status = "completed"
    /\ simulation.timeElapsed = 99

\* C13: over a step that starts and ends running progress does not
\* decrease, and progress is within 0..100 in every state.
C13_ProgressMonotone ==
    [][/\ simulation'.progress \in 0..100
       /\ (simulation.status = "running" /\ simulation'.status = "running")
          => simulation'.progress >= simulation.progress]_vars

\* a redundant start in the middle of a run
C13_Witness ==
    /\ lastOp = <<"start", 1>>
    /\ simulation.status = "running"
    /\ simulation.progress \in 1..99

\* C14: the results stored are one function of the progress stored (all 0
\* at progress 0, the tick's results of that progress above 0), so two
\* states with the same progress have the same results; and the results
\* are all 0 whenever the status is idle.
C14_ResultsFunctionOfProgress ==
    /\ simulation.results =
           IF simulation.progress = 0 THEN ZeroResults
           ELSE TickResults(simulation.progress)
    /\ simulation.status = "idle" => simulation.results = ZeroResults

\* progress 50 reached with ticks of different speeds
C14_Witness ==
    /\ simulation.progress = 50
    /\ simulation.timeElapsed = 14
    /\ simulation.parameters.speed = 2

C16_PauseOnlyWhenRunning ==
    [][lastOp'[1] = "pause" =>
          simulation' = IF simulation.status = "running"
                        THEN [simulation EXCEPT !.status = "paused"]
                        ELSE simulation]_vars

\* pause used before any start
C16_Witness ==
    /\ lastOp = <<"pause", 1>>
    /\ simulation.status = "idle"

\* C17: a tick leaves the status completed when the new progress is at
\* least 100 and running otherwise; the status is completed exactly when
\* progress is 100.
C17_CompletedIffFull ==
    [][/\ lastOp'[1] = "tick" =>
              simulation'.status =
                  IF simulation'.progress >= 100 THEN "completed" ELSE "running"
       /\ simulation'.status = "completed" <=> simulation'.progress = 100]_vars

\* the tick that completes the fastest run
C17_Witness ==
    /\ lastOp = <<"tick", 0>>
    /\ simulation.status = "completed"
    /\ simulation.progress = 100
    /\ simulation.timeElapsed = 20

\* C18: whenever progress is above 0 the results are
\* min(85 + p/10, 95), min(80 + 15p/100, 92), min(70 + p/5, 88) and
\* floor(450 p) of the progress p stored.
C18_ResultsFormulas ==
    simulation.progress > 0 =>
        /\ simulation.results.onTimePerformance =
               Min(8500 + 10 * simulation.progress, 9500)
        /\ simulation.results.passengerSatisfaction =
               Min(8000 + 15 * simulation.progress, 9200)
        /\ simulation.results.energyEfficiency =
               Min(7000 + 20 * simulation.progress, 8800)
        /\ simulation.results.totalPassengers = 450 * simulation.progress

\* C19: the speed slider moved while running changes neither the number
\* of timer callbacks per period nor status, progress, timeElapsed or
\* results; each tick afterwards adds 1 to timeElapsed and the new speed to
\* progress.
C19_CadenceUnchanged ==
    [][/\ (lastOp'[1] = "setSpeed" /\ simulation.status = "running")
          => /\ Cardinality(active') = Cardinality(active)
             /\ simulation'.status = simulation.status
             /\ simulation'.progress = simulation.progress
             /\ simulation'.timeElapsed = simulation.timeElapsed
             /\ simulation'.results = simulation.results
       /\ lastOp'[1] = "tick"
          => /\ simulation'.timeElapsed = simulation.timeElapsed + 1
             /\ simulation'.progress =
                    Min(simulation.progress + simulation.parameters.speed, 100)]_vars

\* C20: a running simulation left alone is eventually completed, after
\* exactly ceil((100 - progress) / speed) ticks, and while it runs the ETA
\* shown is the number of ticks still to come.
C20_TicksToComplete == (100 - run.p0 + run.s - 1) \div run.s

C20_EventuallyCompleted ==
    /\ <>(simulation.status = "completed")
    /\ [](simulation.status = "completed" => run.n = C20_TicksToComplete)
    /\ [](simulation.status = "running" =>
              /\ run.n < C20_TicksToComplete
              /\ ETA(simulation) = C20_TicksToComplete - run.n)

\* a run of 34 ticks at speed 3, which does not divide 100
C20_Witness ==
    /\ simulation.status = "completed"
    /\ run = [p0 |-> 0, s |-> 3, n |-> 34]

\* C21: timeElapsed counts the ticks applied since the last stop or reset
\* (a tick adds 1, stop and reset give 0, nothing else changes it), and in
\* every state min(timeElapsed, 100) <= progress <= min(5 * timeElapsed, 100)
\* and progress = 0 exactly when timeElapsed = 0.
C21_TimeAgainstProgress ==
    /\ [](/\ Min(simulation.timeElapsed, 100) <= simulation.progress
          /\ simulation.progress <= Min(5 * simulation.timeElapsed, 100)
          /\ simulation.progress = 0 <=> simulation.timeElapsed = 0)
    /\ [][simulation'.timeElapsed =
              IF lastOp'[1] = "tick" THEN simulation.timeElapsed + 1
              ELSE IF lastOp'[1] \in {"stop", "reset"} THEN 0
              ELSE simulation.timeElapsed]_vars

\* a second run after a stop, in which every tick was at speed 5
C21_Witness ==
    /\ lastOp = <<"tick", 0>>
    /\ cleanupId # 0
    /\ simulation.timeElapsed = 7
    /\ simulation.progress = 35

\* C22: once the component is unmounted no interval it created is live,
\* and no timer callback fires.
C22_UnmountCancelsAll ==
    ~mounted => (active = {} /\ lastOp[1] # "strayTick")

\* C23: whenever the status is completed the results are exactly 95, 92,
\* 88 and 45000, whatever the speeds and pauses on the way.
C23_ResultsAtCompleted ==
    simulation.status = "completed" =>
        simulation.results = [onTimePerformance |-> 9500,
                              passengerSatisfaction |-> 9200,
                              energyEfficiency |-> 8800,
                              totalPassengers |-> 45000]

\* completed by a tick at speed 4 after 41 ticks of several speeds
C23_Witness ==
    /\ simulation.status = "completed"
    /\ lastOp = <<"tick", 0>>
    /\ simulation.timeElapsed = 41
    /\ simulation.parameters.speed = 4

\* C24: start, pause, stop, reset and the tick leave scenario and
\* parameters as they were, and nothing else changes them than the
\* configuration controls; stop and reset do not restore the defaults.
C24_ConfigurationKept ==
    [][/\ lastOp'[1] \in {"start", "pause", "stop", "reset", "tick"}
          => /\ simulation'.scenario = simulation.scenario
             /\ simulation'.parameters = simulation.parameters
       /\ ( \/ simulation'.scenario # simulation.scenario
            \/ simulation'.parameters # simulation.parameters )
          => lastOp'[1] \in {"setScenario", "setWeather", "setTrainCount",
                             "setPassengerLoad", "setSpeed"}]_vars

\* reset handled on a run configured away from every default it has
C24_Witness ==
    /\ lastOp = <<"reset", 0>>
    /\ simulation.status = "idle"
    /\ simulation.scenario = "emergency_scenario"
    /\ simulation.parameters = [trainCount |-> 5, passengerLoad |-> 100,
                                weatherCondition |-> "snow",
                                timeOfDay |-> "morning", speed |-> 5]

\* C25: in every state, at least one interval is live when the status is
\* running and none is live when it is idle, paused or completed.
C25_TimerWhileRunning ==
    /\ simulation.status = "running" => active # {}
    /\ simulation.status \in {"idle", "paused", "completed"} => active = {}

\* a tick of a run that has two live intervals
C25_Witness ==
    /\ simulation.status = "running"
    /\ lastOp = <<"tick", 0>>
    /\ Cardinality(active) = 2

\* C26: at most one load is pending at a time, and loading is true
\* exactly while one is; Refresh starts a load when loading is false and
\* changes nothing while it is true; the end of a load sets the four
\* predictions and loading = false; and loading does not stay true forever.
C26_OneLoadPending ==
    /\ [](timeouts <= 1 /\ (loading <=> timeouts = 1))
    /\ [][/\ lastOp'[1] = "refresh" =>
                  IF loading THEN mlVars' = mlVars
                  ELSE loading' /\ timeouts' = 1
          /\ lastOp'[1] = "loadEnds" =>
                  /\ ~loading'
                  /\ Cardinality(predictions') = 4
                  /\ timeouts' = 0]_vars
    /\ (loading ~> ~loading)

\* the end of a load that Refresh started
C26_Witness ==
    /\ lastOp = <<"loadEnds", 0>>
    /\ lastUpdate = 2
    /\ ~loading
    /\ predictions = LoadedPredictions

====
